---- MODULE Spec2Model ----
(***************************************************************************)
(* A model of kernelstub: the orchestrator main() of kernelstub.py with    *)
(* the firmware boot manager (efibootmgr) and the ESP it acts on, and the  *)
(* Drive class of mbdrive.py with the mount table and the lsblk probe.     *)
(*                                                                         *)
(* Python str values are TLA+ strings; TLC evaluates Len, \o and SubSeq on *)
(* them, so `in`, slicing and split() are computed character by character. *)
(***************************************************************************)
EXTENDS Integers, Sequences, FiniteSets, TLC

VARIABLES
    fw,          \* firmware NVRAM: the boot entries, in listing order
    fwHeader,    \* whether the boot manager prints its BootCurrent/Timeout/BootOrder lines
    espDir,      \* /boot/efi/EFI/<osName>-kernelstub/ exists
    espFiles,    \* the files in that directory
    noRun,       \* args.simulate
    haveCmdline, \* args.cmdline was given
    haveConfig,  \* /etc/default/kernelstub is a file
    pc,          \* position of main()
    run,         \* number of the current run of main()
    exitCode,    \* exit status of the process, NoCode while it runs
    exc,         \* the uncaught exception that ended the run, or None
    nvram,       \* main's local: the listing split into lines
    entryIndex,  \* main's local
    orderNum,    \* main's local
    ops,         \* del_boot_entry / add_boot_entry calls of this run: op, command, sim, rc
    out,         \* the text the last del_boot_entry / add_boot_entry returned
    copyFailed,  \* which copy_files call of this run failed: "none", "kernel", "initrd", "cmdline"
    fwStart,     \* fw when the current run (or the current registry call) started
    espStart,    \* <<espDir, espFiles>> when the current run started
    fwFirst,     \* the listing lines when the first run started
    prevOk,      \* every earlier run ended by returning 0
    failedCalls, \* firmware calls so far, over all runs, whose tool exited non-zero
    mtab,        \* the OS mount table: util.get_drives()
    mtabStart,   \* mtab when the current run started
    drv,         \* the Drive object: _node, _mount_point
    dres,        \* outcome of the last Drive operation, "stale" once the mount
                 \* table is no longer the one that operation saw
    lsblk,       \* what the probe lsblk -f -o NAME,UUID printed when the last operation
                 \* was a read of uuid (ProbeFails: it could not run), "" otherwise
    host,        \* the block devices of the host: the lines of /proc/partitions and
                 \* the device numbers os.stat gives for / and /boot/efi
    names        \* what the look-ups in /proc/partitions gave

vars == <<fw, fwHeader, espDir, espFiles, noRun, haveCmdline, haveConfig, pc, run,
          exitCode, exc, nvram, entryIndex, orderNum, ops, out, copyFailed,
          fwStart, espStart, fwFirst, prevOk, failedCalls, mtab, mtabStart, drv, dres,
          lsblk, host, names>>

mainVars == <<fw, fwHeader, espDir, espFiles, noRun, haveCmdline, haveConfig, pc, run,
              exitCode, exc, nvram, entryIndex, orderNum, ops, out, copyFailed,
              fwStart, espStart, fwFirst, prevOk, failedCalls, mtabStart, host, names>>

driveVars == <<mtab, drv, dres, lsblk>>

hostVars == <<host, names>>

----------------------------------------------------------------------------
(* Bounds of the model. *)

MaxEntries == 2     \* boot entries in the initial firmware listing
MaxBootNum == 2     \* highest boot number of an initial entry
MaxRuns == 2        \* runs of main() in a row
MaxCalls == 2       \* registry calls in a row
MaxMounts == 2      \* records of the mount table
MaxProbeLines == 2  \* device lines of the probe output
MaxPartLines == 3   \* lines of a partition-table text
MaxDisks == 2       \* disks of a host
MaxParts == 2       \* partitions of a disk

----------------------------------------------------------------------------
(* Python values and str operations. *)

None == "<None>"
\* no exit status: the process runs, or the command was not run
NoCode == 0 - 1

Min(a, b) == IF a < b THEN a ELSE b

\* bool(x) is False for None and for the empty str
Falsy(x) == x = None \/ x = ""

\* s[a:b] for 0 <= a <= b
PySlice(s, a, b) == IF a >= Len(s) THEN "" ELSE SubSeq(s, a + 1, Min(b, Len(s)))

\* sub in s
StrIn(sub, s) == \E i \in 0..(Len(s) - Len(sub)) : SubSeq(s, i + 1, i + Len(sub)) = sub

\* seq[k], k may be negative
PyIndex(seq, k) == IF k >= 0 THEN seq[k + 1] ELSE seq[Len(seq) + k + 1]

\* sep.join(lines)
RECURSIVE Join(_, _)
Join(lines, sep) ==
    IF Len(lines) = 0 THEN ""
    ELSE IF Len(lines) = 1 THEN lines[1]
    ELSE lines[1] \o sep \o Join(Tail(lines), sep)

Char(s, i) == SubSeq(s, i, i)

\* the k-th smallest member of a set of integers
Nth(S, k) == CHOOSE p \in S : Cardinality({q \in S : q < p}) = k - 1

\* s.split(c) for a one-character c: the pieces between the occurrences of c
PySplit(s, c) ==
    LET at == {i \in 1..Len(s) : Char(s, i) = c}
        n == Cardinality(at)
        from(k) == IF k = 1 THEN 1 ELSE Nth(at, k - 1) + 1
        to(k) == IF k = n + 1 THEN Len(s) ELSE Nth(at, k) - 1
    IN  [k \in 1..(n + 1) |-> SubSeq(s, from(k), to(k))]

\* s.split(): the maximal runs of non-blank characters
PyFields(s) ==
    LET first == {i \in 1..Len(s) :
                     Char(s, i) # " " /\ (i = 1 \/ Char(s, i - 1) = " ")}
        last == {i \in 1..Len(s) :
                     Char(s, i) # " " /\ (i = Len(s) \/ Char(s, i + 1) = " ")}
    IN  [k \in 1..Cardinality(first) |-> SubSeq(s, Nth(first, k), Nth(last, k))]

\* os.path.basename(p)
Basename(p) == PyIndex(PySplit(p, "/"), -1)

Digits == "0123456789"

IsDigit(c) == \E d \in 1..Len(Digits) : Char(Digits, d) = c

DigitVal(c) == CHOOSE d \in 0..(Len(Digits) - 1) : Char(Digits, d + 1) = c

RECURSIVE DecVal(_, _)
DecVal(s, n) == IF n = 0 THEN 0 ELSE DecVal(s, n - 1) * Len(Digits) + DigitVal(Char(s, n))

\* int(s) for a str without blanks: an optional sign and decimal digits, or
\* ValueError
PyInt(s) ==
    LET signed == Len(s) > 0 /\ Char(s, 1) \in {"+", "-"}
        body == IF signed THEN SubSeq(s, 2, Len(s)) ELSE s
    IN  IF Len(body) = 0 \/ \E i \in 1..Len(body) : ~IsDigit(Char(body, i))
        THEN [ok |-> FALSE, exc |-> "ValueError", value |-> 0]
        ELSE [ok |-> TRUE, exc |-> None,
              value |-> IF signed /\ Char(s, 1) = "-" THEN 0 - DecVal(body, Len(body))
                        ELSE DecVal(body, Len(body))]

\* str(n) for n >= 0
RECURSIVE Dec(_)
Dec(n) == IF n < Len(Digits) THEN Char(Digits, n + 1)
          ELSE Dec(n \div Len(Digits)) \o Char(Digits, (n % Len(Digits)) + 1)

----------------------------------------------------------------------------
(* The firmware boot manager, as efibootmgr shows and changes it.  A boot  *)
(* entry is [num, label]; the listing has one line per entry, in           *)
(* ascending boot number, after the header lines when they are printed.    *)

HexDigit(n) == SubSeq("0123456789ABCDEF", n + 1, n + 1)
Hex4(n) == "000" \o HexDigit(n)

EntryLine(e) == "Boot" \o Hex4(e.num) \o "* " \o e.label

HeaderLines(entries) ==
    << "BootCurrent: 0000",
       "Timeout: 1 seconds",
       "BootOrder: " \o Join([i \in 1..Len(entries) |-> Hex4(entries[i].num)], ",") >>

Listing(entries, header) ==
    (IF header THEN HeaderLines(entries) ELSE <<>>)
        \o [i \in 1..Len(entries) |-> EntryLine(entries[i])]

\* what `efibootmgr` prints: subprocess.getoutput drops the trailing newline
ListingText(entries, header) == Join(Listing(entries, header), "\n")

Nums(entries) == {entries[i].num : i \in 1..Len(entries)}

FreeNum(entries) == CHOOSE n \in 0..Len(entries) :
                        n \notin Nums(entries) /\ \A m \in 0..(n - 1) : m \in Nums(entries)

Remove(entries, k) == [i \in 1..(Len(entries) - 1) |->
                          IF i < k THEN entries[i] ELSE entries[i + 1]]

InsertSorted(entries, e) ==
    LET k == Cardinality({i \in 1..Len(entries) : entries[i].num < e.num})
    IN  SubSeq(entries, 1, k) \o <<e>> \o SubSeq(entries, k + 1, Len(entries))

DeleteDiagnostic == "Could not delete variable: Invalid argument"
CreateDiagnostic == "Could not prepare Boot variable: No space left on device"

\* `efibootmgr -B -b <index>`: toolOk is whether the firmware accepts the write
ExecDelete(entries, header, index, toolOk) ==
    LET hit == {i \in 1..Len(entries) : Hex4(entries[i].num) = index}
    IN  IF toolOk /\ hit # {}
        THEN LET after == Remove(entries, CHOOSE i \in hit : TRUE)
             IN  [before |-> entries, after |-> after, rc |-> 0,
                  out |-> ListingText(after, header)]
        ELSE [before |-> entries, after |-> entries, rc |-> 1,
              out |-> DeleteDiagnostic]

\* `efibootmgr -d <device> -p <partition> -c -L "<label>" ...`
ExecAdd(entries, header, label, toolOk) ==
    IF toolOk
    THEN LET after == InsertSorted(entries, [num |-> FreeNum(entries), label |-> label])
         IN  [before |-> entries, after |-> after, rc |-> 0,
              out |-> ListingText(after, header)]
    ELSE [before |-> entries, after |-> entries, rc |-> 1,
          out |-> CreateDiagnostic]

----------------------------------------------------------------------------
(* kernelstub.py: the functions main() calls. *)

\* a variant that runs the command whatever the flag says
run_command_IgnoresSimulate(command, simulate, exec) ==
    [out |-> exec.out, fw |-> exec.after, rc |-> exec.rc]

\* run_command(command, simulate); exec is what running the command does
run_command(command, simulate, exec) ==
    IF simulate
    THEN [out |-> "Simulating: " \o command, fw |-> exec.before, rc |-> NoCode]
    ELSE [out |-> exec.out, fw |-> exec.after, rc |-> exec.rc]

\* 1 when an exit status reports a failure
Failed(rc) == IF rc \in {0, NoCode} THEN 0 ELSE 1

DelCommand(index) == "efibootmgr -B -b " \o index

del_boot_entry(index, sim, entries, header, toolOk) ==
    run_command(DelCommand(index), sim, ExecDelete(entries, header, index, toolOk))

AddCommand(device, partition, label, loader, root, initrd, cmdline) ==
    "efibootmgr -d " \o device \o " -p " \o partition \o " -c -L \"" \o
    label \o "\" -l " \o loader \o " -u \"root=UUID=" \o root \o
    " initrd=" \o initrd \o " ro " \o cmdline \o "\""

add_boot_entry(device, partition, label, loader, root, initrd, cmdline, sim, entries, header, toolOk) ==
    run_command(AddCommand(device, partition, label, loader, root, initrd, cmdline),
                sim, ExecAdd(entries, header, label, toolOk))

\* res[key] = name
DictSet(res, key, name) ==
    [k \in (DOMAIN res) \cup {key} |-> IF k = key THEN name ELSE res[k]]

\* the body of the loop of _parse_proc_partitions for one line: any exception
\* (no such field, not an int) leaves res as it is
ParseLine(res, line) ==
    LET fields == PyFields(line)
        tmaj == PyInt(fields[1])
        tmin == PyInt(fields[2])
    IN  IF Len(fields) < 1 THEN res
        ELSE IF ~tmaj.ok THEN res
        ELSE IF Len(fields) < 2 THEN res
        ELSE IF ~tmin.ok THEN res
        ELSE IF Len(fields) < 4 THEN res
        ELSE DictSet(res, <<tmaj.value, tmin.value>>, fields[4])

RECURSIVE ParseFrom(_, _)
ParseFrom(lines, n) ==
    IF n = 0 THEN [k \in {} |-> ""] ELSE ParseLine(ParseFrom(lines, n - 1), lines[n])

\* a variant that takes the last field as the name, three fields being enough
_parse_proc_partitions_LastField(lines) ==
    LET good == {i \in 1..Len(lines) :
                    /\ Len(PyFields(lines[i])) >= 3
                    /\ PyInt(PyFields(lines[i])[1]).ok
                    /\ PyInt(PyFields(lines[i])[2]).ok}
        key(i) == <<PyInt(PyFields(lines[i])[1]).value, PyInt(PyFields(lines[i])[2]).value>>
    IN  [k \in {key(i) : i \in good} |->
            PyIndex(PyFields(lines[CHOOSE i \in good : key(i) = k]), -1)]

\* _parse_proc_partitions() with /proc/partitions holding lines
_parse_proc_partitions(lines) == ParseFrom(lines, Len(lines))

\* d[key]
DictGet(d, key) ==
    IF key \in DOMAIN d THEN [ok |-> TRUE, exc |-> None, value |-> d[key]]
    ELSE [ok |-> FALSE, exc |-> "KeyError", value |-> None]

\* get_drive_name(path), dev being (major, minor) of os.stat(path).st_dev
get_drive_name(lines, dev) == DictGet(_parse_proc_partitions(lines), <<dev[1], 0>>)

\* get_part_name(path)
get_part_name(lines, dev) == DictGet(_parse_proc_partitions(lines), dev)

RECURSIVE FindFrom(_, _, _)
FindFrom(lines, osLabel, findIndex) ==
    IF findIndex >= Len(lines) THEN -1
    ELSE IF StrIn(osLabel, lines[findIndex + 1]) THEN findIndex
    ELSE FindFrom(lines, osLabel, findIndex + 1)

\* a variant that keeps scanning and returns the last line that matches
find_os_entry_LastMatch(lines, label) ==
    LET hits == {i \in 0..(Len(lines) - 1) : StrIn(label, lines[i + 1])}
    IN  IF hits = {} THEN -1 ELSE CHOOSE i \in hits : \A j \in hits : j <= i

find_os_entry(lines, label) == FindFrom(lines, label, 0)

\* str(nvram[entryIndex])[4:8]
OrderNumOf(lines, index) == PySlice(PyIndex(lines, index), 4, 8)

----------------------------------------------------------------------------
(* main(): the values it computes before acting. *)

osName == "Ubuntu"
osVer == "22.04"
osLabel == osName \o " " \o osVer
osDirName == osName \o "-kernelstub/"
linuxName == "linux64.efi"
initrdName == "initrd.img"
cmdlineName == "cmdline.txt"
rootUuid == "0a1b"
kernelOpts == "quiet"

NoNames == [op |-> "none"]

\* lines 297-301 on the host h: the first look-up that fails ends them.  The
\* three look-ups read the same /proc/partitions, so it is parsed once here.
DriveInfo(h) ==
    LET dInfo == _parse_proc_partitions(h.text)
        driveName == DictGet(dInfo, <<h.root[1], 0>>)
        rootFs == DictGet(dInfo, h.root)
        espFs == DictGet(dInfo, h.esp)
    IN  IF ~driveName.ok THEN [ok |-> FALSE, exc |-> driveName.exc]
        ELSE IF ~rootFs.ok THEN [ok |-> FALSE, exc |-> rootFs.exc]
        ELSE IF ~espFs.ok THEN [ok |-> FALSE, exc |-> espFs.exc]
        ELSE IF espFs.value = "" THEN [ok |-> FALSE, exc |-> "IndexError"]
        ELSE [ok |-> TRUE, exc |-> None, driveName |-> driveName.value,
              rootFs |-> rootFs.value, espFs |-> espFs.value,
              espNum |-> Char(espFs.value, Len(espFs.value))]

\* the command of lines 362-369, once the drive information is there
MainAddCommand ==
    AddCommand("/dev/" \o names.driveName, names.espNum, osLabel,
               "/EFI/" \o osDirName \o linuxName,
               rootUuid, "EFI/" \o osDirName \o initrdName, kernelOpts)

\* an uncaught exception: the interpreter prints the traceback and exits with 1
Crash(name) ==
    /\ pc' = "crashed"
    /\ exc' = name
    /\ exitCode' = 1

\* main() returned: `main()` at the bottom of the file drops the value, the
\* interpreter exits with 0
Return ==
    /\ pc' = "done"
    /\ exc' = None
    /\ exitCode' = 0

\* lines 278-295: kernel parameters from --cmdline or the config file.
\* check_config raises ConfigError, a name kernelstub.py neither defines nor
\* imports: the raise, and the `except ConfigError` above it, raise NameError.
CheckParams ==
    /\ pc = "start"
    /\ IF haveCmdline \/ haveConfig
       THEN /\ pc' = "drive_info"
            /\ UNCHANGED <<exc, exitCode>>
       ELSE Crash("NameError")
    /\ UNCHANGED <<fw, fwHeader, espDir, espFiles, noRun, haveCmdline, haveConfig, run,
                   nvram, entryIndex, orderNum, ops, out, copyFailed, fwStart, espStart,
                   fwFirst, prevOk, mtabStart, failedCalls>>
    /\ UNCHANGED driveVars
    /\ UNCHANGED hostVars

\* lines 297-302: drive and partition information, from /proc/partitions
\* and the device numbers of / and /boot/efi; a failed look-up is not caught
ResolveDrives ==
    /\ pc = "drive_info"
    /\ LET r == DriveInfo(host)
       IN  /\ names' = [op |-> "main"] @@ r
           /\ IF r.ok
              THEN /\ pc' = "resolve"
                   /\ UNCHANGED <<exc, exitCode>>
              ELSE Crash(r.exc)
    /\ UNCHANGED host
    /\ UNCHANGED <<fw, fwHeader, espDir, espFiles, noRun, haveCmdline, haveConfig, run,
                   nvram, entryIndex, orderNum, ops, out, copyFailed, fwStart, espStart,
                   fwFirst, prevOk, mtabStart, failedCalls>>
    /\ UNCHANGED driveVars

\* lines 310-313: read the listing (never simulated), find the entry
ReadNvram ==
    /\ pc = "resolve"
    /\ LET lines == PySplit(run_command("efibootmgr", FALSE,
                        [before |-> fw, after |-> fw, rc |-> 0,
                         out |-> ListingText(fw, fwHeader)]).out, "\n")
       IN  /\ nvram' = lines
           /\ entryIndex' = find_os_entry(lines, osLabel)
           /\ orderNum' = OrderNumOf(lines, find_os_entry(lines, osLabel))
    /\ pc' = "ensure_dir"
    /\ UNCHANGED <<fw, fwHeader, espDir, espFiles, noRun, haveCmdline, haveConfig, run,
                   exitCode, exc, ops, out, copyFailed, fwStart, espStart, fwFirst,
                   prevOk, mtabStart, failedCalls>>
    /\ UNCHANGED driveVars
    /\ UNCHANGED hostVars

\* line 323, ensure_dir(workDir): not given the simulate flag
EnsureDir ==
    /\ pc = "ensure_dir"
    /\ espDir' = TRUE
    /\ pc' = "copy_kernel"
    /\ UNCHANGED <<fw, fwHeader, espFiles, noRun, haveCmdline, haveConfig, run,
                   exitCode, exc, nvram, entryIndex, orderNum, ops, out, copyFailed,
                   fwStart, espStart, fwFirst, prevOk, mtabStart, failedCalls>>
    /\ UNCHANGED driveVars
    /\ UNCHANGED hostVars

\* copy_files(src, dest, simulate): TRUE when it returns True, FALSE when it
\* raises; copyOk is whether shutil.copy succeeds
copy_files(simulate, copyOk) == simulate \/ copyOk

FilesAfterCopy(name, simulate, copyOk) ==
    IF ~simulate /\ copyOk THEN espFiles \cup {name} ELSE espFiles

\* a variant that logs the failed kernel copy and carries on
CopyKernelCarriesOn ==
    /\ pc = "copy_kernel"
    /\ \E copyOk \in BOOLEAN :
        /\ espFiles' = FilesAfterCopy(linuxName, noRun, copyOk)
        /\ copyFailed' = IF copy_files(noRun, copyOk) THEN copyFailed ELSE "kernel"
    /\ pc' = "copy_initrd"
    /\ UNCHANGED <<fw, fwHeader, espDir, noRun, haveCmdline, haveConfig, run, exc,
                   exitCode, nvram, entryIndex, orderNum, ops, out, fwStart, espStart,
                   fwFirst, prevOk, mtabStart, failedCalls>>
    /\ UNCHANGED driveVars
    /\ UNCHANGED hostVars

\* lines 338-345.  copy_files raises FileOpsError, an undefined name as well:
\* NameError leaves copy_files and `except FileOpsError` cannot catch it
CopyKernel ==
    /\ pc = "copy_kernel"
    /\ \E copyOk \in BOOLEAN :
        /\ espFiles' = FilesAfterCopy(linuxName, noRun, copyOk)
        /\ IF copy_files(noRun, copyOk)
           THEN /\ pc' = "copy_initrd"
                /\ UNCHANGED <<exc, exitCode, copyFailed>>
           ELSE /\ Crash("NameError")
                /\ copyFailed' = "kernel"
    /\ UNCHANGED <<fw, fwHeader, espDir, noRun, haveCmdline, haveConfig, run,
                   nvram, entryIndex, orderNum, ops, out, fwStart, espStart, fwFirst,
                   prevOk, mtabStart, failedCalls>>
    /\ UNCHANGED driveVars
    /\ UNCHANGED hostVars

\* lines 347-354
CopyInitrd ==
    /\ pc = "copy_initrd"
    /\ \E copyOk \in BOOLEAN :
        /\ espFiles' = FilesAfterCopy(initrdName, noRun, copyOk)
        /\ IF copy_files(noRun, copyOk)
           THEN /\ pc' = "delete"
                /\ UNCHANGED <<exc, exitCode, copyFailed>>
           ELSE /\ Crash("NameError")
                /\ copyFailed' = "initrd"
    /\ UNCHANGED <<fw, fwHeader, espDir, noRun, haveCmdline, haveConfig, run,
                   nvram, entryIndex, orderNum, ops, out, fwStart, espStart, fwFirst,
                   prevOk, mtabStart, failedCalls>>
    /\ UNCHANGED driveVars
    /\ UNCHANGED hostVars

\* a variant that deletes the computed boot number whether or not an entry
\* was found
DeleteOldAlways ==
    /\ pc = "delete"
    /\ \E toolOk \in BOOLEAN :
         LET r == del_boot_entry(orderNum, noRun, fw, fwHeader, toolOk)
         IN  /\ fw' = r.fw
             /\ out' = r.out
             /\ ops' = Append(ops, [op |-> "del", command |-> DelCommand(orderNum),
                                    sim |-> noRun, rc |-> r.rc])
             /\ failedCalls' = failedCalls + Failed(r.rc)
    /\ pc' = "add"
    /\ UNCHANGED <<fwHeader, espDir, espFiles, noRun, haveCmdline, haveConfig, run,
                   exitCode, exc, nvram, entryIndex, orderNum, copyFailed, fwStart,
                   espStart, fwFirst, prevOk, mtabStart>>
    /\ UNCHANGED driveVars
    /\ UNCHANGED hostVars

\* lines 356-361: the returned text is logged, the exit status is not looked at
DeleteOld ==
    /\ pc = "delete"
    /\ IF entryIndex >= 0
       THEN \E toolOk \in BOOLEAN :
              LET r == del_boot_entry(orderNum, noRun, fw, fwHeader, toolOk)
              IN  /\ fw' = r.fw
                  /\ out' = r.out
                  /\ ops' = Append(ops, [op |-> "del", command |-> DelCommand(orderNum),
                                         sim |-> noRun, rc |-> r.rc])
                  /\ failedCalls' = failedCalls + Failed(r.rc)
       ELSE UNCHANGED <<fw, out, ops, failedCalls>>
    /\ pc' = "add"
    /\ UNCHANGED <<fwHeader, espDir, espFiles, noRun, haveCmdline, haveConfig, run,
                   exitCode, exc, nvram, entryIndex, orderNum, copyFailed, fwStart,
                   espStart, fwFirst, prevOk, mtabStart>>
    /\ UNCHANGED driveVars
    /\ UNCHANGED hostVars

\* lines 362-369
AddNew ==
    /\ pc = "add"
    /\ \E toolOk \in BOOLEAN :
         LET r == add_boot_entry("/dev/" \o names.driveName, names.espNum, osLabel,
                                 "/EFI/" \o osDirName \o linuxName, rootUuid,
                                 "EFI/" \o osDirName \o initrdName, kernelOpts,
                                 noRun, fw, fwHeader, toolOk)
         IN  /\ fw' = r.fw
             /\ out' = r.out
             /\ ops' = Append(ops, [op |-> "add", command |-> MainAddCommand,
                                    sim |-> noRun, rc |-> r.rc])
             /\ failedCalls' = failedCalls + Failed(r.rc)
    /\ pc' = "copy_cmdline"
    /\ UNCHANGED <<fwHeader, espDir, espFiles, noRun, haveCmdline, haveConfig, run,
                   exitCode, exc, nvram, entryIndex, orderNum, copyFailed, fwStart,
                   espStart, fwFirst, prevOk, mtabStart>>
    /\ UNCHANGED driveVars
    /\ UNCHANGED hostVars

\* lines 371-383
CopyCmdline ==
    /\ pc = "copy_cmdline"
    /\ \E copyOk \in BOOLEAN :
        /\ espFiles' = FilesAfterCopy(cmdlineName, noRun, copyOk)
        /\ IF copy_files(noRun, copyOk)
           THEN /\ Return
                /\ UNCHANGED copyFailed
           ELSE /\ Crash("NameError")
                /\ copyFailed' = "cmdline"
    /\ UNCHANGED <<fw, fwHeader, espDir, noRun, haveCmdline, haveConfig, run,
                   nvram, entryIndex, orderNum, ops, out, fwStart, espStart, fwFirst,
                   prevOk, mtabStart, failedCalls>>
    /\ UNCHANGED driveVars
    /\ UNCHANGED hostVars

\* the operator runs kernelstub again with the same arguments
RunAgain ==
    /\ pc \in {"done", "crashed"}
    /\ run < MaxRuns
    /\ run' = run + 1
    /\ pc' = "start"
    /\ exitCode' = NoCode
    /\ exc' = None
    /\ nvram' = <<>>
    /\ entryIndex' = -1
    /\ orderNum' = ""
    /\ ops' = <<>>
    /\ out' = ""
    /\ copyFailed' = "none"
    /\ fwStart' = fw
    /\ espStart' = <<espDir, espFiles>>
    /\ mtabStart' = mtab
    /\ prevOk' = (prevOk /\ pc = "done")
    /\ UNCHANGED <<fw, fwHeader, espDir, espFiles, noRun, haveCmdline, haveConfig, fwFirst,
                   failedCalls>>
    /\ names' = NoNames
    /\ UNCHANGED host
    /\ UNCHANGED driveVars

----------------------------------------------------------------------------
(* The states main() can start in. *)

Labels == {"Windows", osLabel, osLabel \o " LTS"}

\* the listings the boot manager can show: distinct boot numbers, ascending
InitEntries ==
    {s \in UNION {[1..n -> [num : 0..MaxBootNum, label : Labels]] : n \in 0..MaxEntries} :
        \A i \in 1..Len(s) : \A j \in 1..Len(s) : i < j => s[i].num < s[j].num}

RootMtab == << [node |-> "/dev/sda2", mount_point |-> "/", type |-> "ext4"],
               [node |-> "/dev/sda1", mount_point |-> "/boot/efi", type |-> "vfat"] >>

\* the disks a host can have: name, device number, and what the kernel puts
\* between the name and a partition number
DiskPool ==
    << [name |-> "sda", major |-> 8, minor |-> 0, sep |-> ""],
       [name |-> "sdb", major |-> 8, minor |-> 16, sep |-> ""],
       [name |-> "nvme0n1", major |-> 259, minor |-> 0, sep |-> "p"] >>

PartNums == <<1, 2, 10>>

\* a layout gives each disk of the host its partition numbers
Layouts ==
    UNION {[D -> {P \in SUBSET {PartNums[i] : i \in 1..Len(PartNums)} :
                     P # {} /\ Cardinality(P) <= MaxParts}] :
           D \in {E \in SUBSET (1..Len(DiskPool)) : E # {} /\ Cardinality(E) <= MaxDisks}}

\* the partitions of a layout: disk and number
PartsOf(layout) == UNION {{<<d, n>> : n \in layout[d]} : d \in DOMAIN layout}

PartName(at) == DiskPool[at[1]].name \o DiskPool[at[1]].sep \o Dec(at[2])

\* st_dev of a filesystem on that partition
PartDev(at) == <<DiskPool[at[1]].major, DiskPool[at[1]].minor + at[2]>>

PartitionsLine(major, minor, name) ==
    " " \o Dec(major) \o " " \o Dec(minor) \o " 1024 " \o name

RECURSIVE DiskPartLines(_, _, _)
DiskPartLines(layout, d, i) ==
    IF i > Len(PartNums) THEN <<>>
    ELSE (IF PartNums[i] \in layout[d]
          THEN <<PartitionsLine(PartDev(<<d, PartNums[i]>>)[1], PartDev(<<d, PartNums[i]>>)[2],
                                PartName(<<d, PartNums[i]>>))>>
          ELSE <<>>) \o DiskPartLines(layout, d, i + 1)

RECURSIVE DiskLines(_, _)
DiskLines(layout, d) ==
    IF d > Len(DiskPool) THEN <<>>
    ELSE (IF d \in DOMAIN layout
          THEN <<PartitionsLine(DiskPool[d].major, DiskPool[d].minor, DiskPool[d].name)>>
                   \o DiskPartLines(layout, d, 1)
          ELSE <<>>) \o DiskLines(layout, d + 1)

\* /proc/partitions of a layout
PartitionsText(layout) == <<"major minor  #blocks  name", "">> \o DiskLines(layout, 1)

\* a host: its disks, where / and /boot/efi are, and what the program reads
HostOf(layout, rootAt, espAt) ==
    [text |-> PartitionsText(layout), root |-> PartDev(rootAt), esp |-> PartDev(espAt),
     rootAt |-> rootAt, espAt |-> espAt]

\* / and /boot/efi are on different partitions
Hosts ==
    UNION {{HostOf(layout, at[1], at[2]) :
               at \in {p \in PartsOf(layout) \X PartsOf(layout) : p[1] # p[2]}} :
           layout \in Layouts}

\* one disk sda: the ESP on sda1, the root filesystem on sda2
DefaultHost == HostOf([d \in {1} |-> {1, 2}], <<1, 2>>, <<1, 1>>)

HostIdle ==
    /\ host = DefaultHost
    /\ names = NoNames

NoDrive == [node |-> None, mount_point |-> None]
NoResult == [op |-> "none"]

DriveIdle ==
    /\ mtab = RootMtab
    /\ drv = NoDrive
    /\ dres = NoResult
    /\ lsblk = ""

FirmwareInit ==
    /\ fw \in InitEntries
    /\ fwHeader \in BOOLEAN
    /\ fwStart = fw
    /\ fwFirst = fw
    /\ nvram = <<>>
    /\ entryIndex = -1
    /\ orderNum = ""
    /\ ops = <<>>
    /\ out = ""
    /\ exitCode = NoCode
    /\ exc = None
    /\ copyFailed = "none"
    /\ prevOk = TRUE
    /\ failedCalls = 0
    /\ run = 1

Init ==
    /\ FirmwareInit
    /\ espDir \in BOOLEAN
    /\ espFiles = (IF espDir THEN {linuxName, initrdName, cmdlineName} ELSE {})
    /\ espStart = <<espDir, espFiles>>
    /\ noRun \in BOOLEAN
    /\ haveCmdline \in BOOLEAN
    /\ haveConfig \in BOOLEAN
    /\ haveCmdline => haveConfig
    /\ pc = "start"
    /\ DriveIdle
    /\ HostIdle
    /\ mtabStart = mtab

Next ==
    \/ CheckParams
    \/ ResolveDrives
    \/ ReadNvram
    \/ EnsureDir
    \/ CopyKernel
    \/ CopyInitrd
    \/ DeleteOld
    \/ AddNew
    \/ CopyCmdline
    \/ RunAgain

Spec == Init /\ [][Next]_vars

\* main() on the hosts of Hosts, the firmware holding no entry yet
InitResolve ==
    /\ FirmwareInit
    /\ fw = <<>>
    /\ fwHeader = FALSE
    /\ espDir = TRUE
    /\ espFiles = {linuxName, initrdName, cmdlineName}
    /\ espStart = <<espDir, espFiles>>
    /\ noRun \in BOOLEAN
    /\ haveCmdline = TRUE
    /\ haveConfig = TRUE
    /\ pc = "start"
    /\ DriveIdle
    /\ mtabStart = mtab
    /\ host \in Hosts
    /\ names = NoNames

SpecResolve == InitResolve /\ [][Next]_vars

----------------------------------------------------------------------------
(* del_boot_entry and add_boot_entry called on their own, against the      *)
(* firmware, with arguments of the caller's choice.  Here run counts the   *)
(* calls, ops holds the last call and fwStart the entries before it.       *)

RegistryIndexes == {Hex4(n) : n \in 0..MaxBootNum} \cup {"00FF"}

\* device, partition, label, cmdline
RegistryAddArgs ==
    { <<"/dev/sda", "1", osLabel, "quiet splash">>,
      <<"/dev/nvme0n1", "12", "Windows", "">> }

RegistryDelete ==
    /\ pc = "registry"
    /\ run <= MaxCalls
    /\ \E index \in RegistryIndexes, sim \in BOOLEAN, toolOk \in BOOLEAN :
         LET r == del_boot_entry(index, sim, fw, fwHeader, toolOk)
         IN  /\ sim => toolOk     \* no tool runs in a simulated call
             /\ fw' = r.fw
             /\ out' = r.out
             /\ ops' = <<[op |-> "del", command |-> DelCommand(index),
                          sim |-> sim, rc |-> r.rc]>>
             /\ failedCalls' = failedCalls + Failed(r.rc)
    /\ fwStart' = fw
    /\ run' = run + 1
    /\ UNCHANGED <<fwHeader, espDir, espFiles, noRun, haveCmdline, haveConfig, pc,
                   exitCode, exc, nvram, entryIndex, orderNum, copyFailed, espStart,
                   fwFirst, prevOk, mtabStart>>
    /\ UNCHANGED driveVars
    /\ UNCHANGED hostVars

RegistryAdd ==
    /\ pc = "registry"
    /\ run <= MaxCalls
    /\ \E args \in RegistryAddArgs, sim \in BOOLEAN, toolOk \in BOOLEAN :
         LET device == args[1]
             partition == args[2]
             label == args[3]
             cmdline == args[4]
             loader == "/EFI/" \o osDirName \o linuxName
             initrd == "EFI/" \o osDirName \o initrdName
             r == add_boot_entry(device, partition, label, loader, rootUuid, initrd,
                                 cmdline, sim, fw, fwHeader, toolOk)
         IN  /\ sim => toolOk     \* no tool runs in a simulated call
             /\ fw' = r.fw
             /\ out' = r.out
             /\ ops' = <<[op |-> "add",
                          command |-> AddCommand(device, partition, label, loader,
                                                           rootUuid, initrd, cmdline),
                                    sim |-> sim, rc |-> r.rc]>>
             /\ failedCalls' = failedCalls + Failed(r.rc)
    /\ fwStart' = fw
    /\ run' = run + 1
    /\ UNCHANGED <<fwHeader, espDir, espFiles, noRun, haveCmdline, haveConfig, pc,
                   exitCode, exc, nvram, entryIndex, orderNum, copyFailed, espStart,
                   fwFirst, prevOk, mtabStart>>
    /\ UNCHANGED driveVars
    /\ UNCHANGED hostVars

\* the listing a caller reads next: run_command("efibootmgr", False).split("\n")
ReadListing(entries, header) == PySplit(ListingText(entries, header), "\n")

InitRegistry ==
    /\ FirmwareInit
    /\ pc = "registry"
    /\ espDir = TRUE
    /\ espFiles = {}
    /\ espStart = <<espDir, espFiles>>
    /\ noRun = FALSE
    /\ haveCmdline = TRUE
    /\ haveConfig = TRUE
    /\ DriveIdle
    /\ HostIdle
    /\ mtabStart = mtab

NextRegistry ==
    \/ RegistryDelete
    \/ RegistryAdd

SpecRegistry == InitRegistry /\ [][NextRegistry]_vars

\* C4: after a del_boot_entry or add_boot_entry call made with the simulate
\* flag set, the returned text is "Simulating: " followed by the command, and
\* the listing read next is the listing as it was before the call.
C4_SimulatedCallKeepsListing ==
    (pc = "registry" /\ ops # <<>> /\ ops[Len(ops)].sim)
        => /\ out = "Simulating: " \o ops[Len(ops)].command
           /\ ReadListing(fw, fwHeader) = ReadListing(fwStart, fwHeader)

\* a simulated delete of a boot number that is installed, after a call that
\* did change the firmware
C4_Witness ==
    /\ pc = "registry"
    /\ run > 2
    /\ ops # <<>>
    /\ ops[Len(ops)].sim
    /\ ops[Len(ops)].op = "del"
    /\ fw # fwFirst
    /\ \E k \in 1..Len(fw) : ops[Len(ops)].command = DelCommand(Hex4(fw[k].num))

----------------------------------------------------------------------------
(* mbdrive.py: the Drive class.  The mount table is a dict keyed by node,  *)
(* here the sequence of its records in insertion order.                    *)

Nodes == {"/dev/sda1", "tmpfs", "/mnt"}
MountPoints == {"/boot/efi", "/mnt"}
FsTypes == {"vfat", "tmpfs"}

\* a partition carries a vfat filesystem; any other source name is a tmpfs
FsTypeOf(node) == IF node = "/dev/sda1" THEN "vfat" ELSE "tmpfs"

MountRecords ==
    {[node |-> n, mount_point |-> m, type |-> FsTypeOf(n)] : n \in Nodes, m \in MountPoints}

\* the snapshots util.get_drives() can return: one record per node
MountTables ==
    {t \in UNION {[1..n -> MountRecords] : n \in 0..MaxMounts} :
        \A i \in 1..Len(t) : \A j \in 1..Len(t) : i # j => t[i].node # t[j].node}

\* self.mtab[mount][key] == part for some key of the record
RecordHas(rec, part) == rec.node = part \/ rec.mount_point = part \/ rec.type = part

DriveError == "DriveError"

RECURSIVE EquateFrom(_, _, _)
EquateFrom(table, part, i) ==
    IF i > Len(table) THEN [ok |-> FALSE, exc |-> DriveError]
    ELSE IF RecordHas(table[i], part)
         THEN [ok |-> TRUE, node |-> table[i].node, mount_point |-> table[i].mount_point]
    ELSE EquateFrom(table, part, i + 1)

RECURSIVE EquateLastFrom(_, _, _)
EquateLastFrom(table, part, i) ==
    IF i < 1 THEN [ok |-> FALSE, exc |-> DriveError]
    ELSE IF RecordHas(table[i], part)
         THEN [ok |-> TRUE, node |-> table[i].node, mount_point |-> table[i].mount_point]
    ELSE EquateLastFrom(table, part, i - 1)

\* a variant in which the last matching record wins
equate_node_mountpoint_LastWins(table, part) == EquateLastFrom(table, part, Len(table))

\* Drive.equate_node_mountpoint(part) on the snapshot table
equate_node_mountpoint(table, part) == EquateFrom(table, part, 1)

\* a variant that answers from the table as it was at the start
is_mounted_Cached(table, d) == \E i \in 1..Len(mtabStart) : mtabStart[i].node = d.node

\* Drive.is_mounted: self.node in self.mtab
is_mounted(table, d) == \E i \in 1..Len(table) : table[i].node = d.node

\* Drive.__init__(node, mount_point) on a new object d: what equate returns is
\* dropped, nothing is stored in d
DriveInit(table, d, node, mount_point) ==
    LET first == IF Falsy(node) /\ ~Falsy(mount_point)
                 THEN equate_node_mountpoint(table, mount_point)
                 ELSE [ok |-> TRUE]
        second == IF Falsy(mount_point) /\ ~Falsy(node)
                  THEN equate_node_mountpoint(table, node)
                  ELSE [ok |-> TRUE]
        third == IF is_mounted(table, d)
                 THEN IF Falsy(node) /\ ~Falsy(mount_point)
                      THEN equate_node_mountpoint(table, mount_point)
                      ELSE IF Falsy(mount_point) /\ ~Falsy(node)
                           THEN equate_node_mountpoint(table, node)
                           ELSE [ok |-> TRUE]
                 ELSE [ok |-> TRUE]
    IN  IF first.ok /\ second.ok /\ third.ok
        THEN [ok |-> TRUE, exc |-> None, drv |-> d]
        ELSE [ok |-> FALSE, exc |-> DriveError, drv |-> d]

\* Drive.node = node_path
SetNode(table, d, node_path) ==
    IF Falsy(node_path) THEN [ok |-> FALSE, exc |-> DriveError, drv |-> d]
    ELSE LET d1 == [d EXCEPT !.node = node_path]
             r == equate_node_mountpoint(table, node_path)
         IN  IF ~Falsy(d1.mount_point) THEN [ok |-> TRUE, exc |-> None, drv |-> d1]
             ELSE IF ~r.ok \/ Falsy(r.mount_point)
                  THEN [ok |-> FALSE, exc |-> DriveError, drv |-> d1]
             ELSE [ok |-> TRUE, exc |-> None,
                   drv |-> [d1 EXCEPT !.mount_point = r.mount_point]]

\* Drive.mount_point = mount_point
SetMountPoint(table, d, mount_point) ==
    IF Falsy(mount_point) THEN [ok |-> FALSE, exc |-> DriveError, drv |-> d]
    ELSE LET d1 == [d EXCEPT !.mount_point = mount_point]
             r == equate_node_mountpoint(table, mount_point)
         IN  IF ~Falsy(d1.node) THEN [ok |-> TRUE, exc |-> None, drv |-> d1]
             ELSE IF ~r.ok \/ Falsy(r.node)
                  THEN [ok |-> FALSE, exc |-> DriveError, drv |-> d1]
             ELSE [ok |-> TRUE, exc |-> None, drv |-> [d1 EXCEPT !.node = r.node]]

\* the OS mounts node on mount_point: the record of node is replaced where it
\* stands, a new node is added at the end
MountInto(table, node, mount_point) ==
    LET rec == [node |-> node, mount_point |-> mount_point, type |-> FsTypeOf(node)]
    IN  IF \E i \in 1..Len(table) : table[i].node = node
        THEN [i \in 1..Len(table) |-> IF table[i].node = node THEN rec ELSE table[i]]
        ELSE Append(table, rec)

\* the OS unmounts the record at position k
UnmountAt(table, k) == [i \in 1..(Len(table) - 1) |->
                           IF i < k THEN table[i] ELSE table[i + 1]]

\* the positions umount can act on for a node or a mount point
UmountTargets(table, target) ==
    {i \in 1..Len(table) : table[i].node = target \/ table[i].mount_point = target}

\* the argv of line 226-231
MountCmd(node, mount_point, type) ==
    <<"sudo", "mount">> \o (IF Falsy(type) THEN <<>> ELSE <<"-t " \o type>>)
        \o <<node, mount_point>>

\* Drive.mount_drive(mount_point, node, type); toolOk is whether mount exits 0
mount_drive(table, d, mount_point, node, type, toolOk) ==
    LET node0 == IF Falsy(node) THEN d.node ELSE node
        mp0 == IF Falsy(mount_point) THEN d.mount_point ELSE mount_point
        set == IF ~Falsy(mp0) THEN SetMountPoint(table, d, mp0)
               ELSE [ok |-> TRUE, exc |-> None, drv |-> d]
    IN  IF ~set.ok
        THEN [ok |-> FALSE, exc |-> set.exc, drv |-> set.drv, table |-> table, cmd |-> <<>>]
        ELSE IF node0 = None \/ mp0 = None
        THEN [ok |-> FALSE, exc |-> "TypeError", drv |-> set.drv, table |-> table,
              cmd |-> <<>>]
        ELSE IF ~toolOk
        THEN [ok |-> FALSE, exc |-> DriveError, drv |-> set.drv, table |-> table,
              cmd |-> MountCmd(node0, mp0, type)]
        ELSE [ok |-> TRUE, exc |-> None, drv |-> set.drv,
              table |-> MountInto(table, node0, mp0), cmd |-> MountCmd(node0, mp0, type)]

\* Drive.unmount_drive(drive); toolOk is whether umount exits 0
unmount_drive(table, d, drive, toolOk) ==
    LET target == IF Falsy(drive) THEN d.node ELSE drive
        hit == UmountTargets(table, target)
    IN  IF target = None
        THEN [ok |-> FALSE, exc |-> "TypeError", table |-> table, cmd |-> <<>>]
        ELSE IF ~toolOk \/ hit = {}
        THEN [ok |-> FALSE, exc |-> DriveError, table |-> table,
              cmd |-> <<"sudo", "umount", target>>]
        ELSE [ok |-> TRUE, exc |-> None,
              table |-> UnmountAt(table, CHOOSE i \in hit : \A j \in hit : j <= i),
              cmd |-> <<"sudo", "umount", target>>]

\* the probe `lsblk -f -o NAME,UUID`
ProbeFails == "<OSError>"
ProbeLines == <<"|-sda1 AAAA-1111", "|-sda1", "|-sda10 BBBB-2222">>

\* the lines at the positions of S, in the order the probe prints them
RECURSIVE ProbePick(_, _)
ProbePick(S, i) ==
    IF i > Len(ProbeLines) THEN <<>>
    ELSE (IF i \in S THEN <<ProbeLines[i]>> ELSE <<>>) \o ProbePick(S, i + 1)

ProbeOutputs ==
    {ProbeFails} \cup
    {Join(<<"NAME UUID">> \o ProbePick(S, 1), "\n") \o "\n" :
        S \in {T \in SUBSET (1..Len(ProbeLines)) : Cardinality(T) <= MaxProbeLines}}

RECURSIVE UuidFrom(_, _, _)
UuidFrom(fs_list, base, i) ==
    IF i > Len(fs_list) THEN [ok |-> TRUE, exc |-> None, value |-> None]
    ELSE IF StrIn(base, fs_list[i])
         THEN IF PyFields(fs_list[i]) = <<>>
              THEN [ok |-> FALSE, exc |-> "IndexError", value |-> None]
              ELSE [ok |-> TRUE, exc |-> None, value |-> PyIndex(PyFields(fs_list[i]), -1)]
    ELSE UuidFrom(fs_list, base, i + 1)

\* Drive.uuid with the probe printing probe
Uuid(d, probe) ==
    IF probe = ProbeFails THEN [ok |-> FALSE, exc |-> DriveError, value |-> None]
    ELSE IF d.node = None THEN [ok |-> FALSE, exc |-> "TypeError", value |-> None]
    ELSE UuidFrom(PySplit(probe, "\n"), Basename(d.node), 1)

DriveNodeArgs == Nodes \cup {None}
DriveMountArgs == MountPoints \cup {None}

\* d = Drive(node=..., mount_point=...)
Construct ==
    /\ \E node \in DriveNodeArgs, mount_point \in DriveMountArgs :
         LET r == DriveInit(mtab, NoDrive, node, mount_point)
         IN  /\ drv' = r.drv
             /\ dres' = [op |-> "init", ok |-> r.ok, exc |-> r.exc,
                         node |-> node, mount_point |-> mount_point]
    /\ lsblk' = ""
    /\ UNCHANGED mtab
    /\ UNCHANGED mainVars

\* d.node = node_path
AssignNode ==
    /\ dres.op # "none"
    /\ \E node_path \in DriveNodeArgs \ {None} :
         LET r == SetNode(mtab, drv, node_path)
         IN  /\ drv' = r.drv
             /\ dres' = [op |-> "set_node", ok |-> r.ok, exc |-> r.exc]
    /\ lsblk' = ""
    /\ UNCHANGED mtab
    /\ UNCHANGED mainVars

\* d.mount_point = mount_point
AssignMountPoint ==
    /\ dres.op # "none"
    /\ \E mount_point \in DriveMountArgs \ {None} :
         LET r == SetMountPoint(mtab, drv, mount_point)
         IN  /\ drv' = r.drv
             /\ dres' = [op |-> "set_mount_point", ok |-> r.ok, exc |-> r.exc]
    /\ lsblk' = ""
    /\ UNCHANGED mtab
    /\ UNCHANGED mainVars

\* d.uuid
ReadUuid ==
    /\ dres.op # "none"
    /\ \E probe \in ProbeOutputs :
         LET r == Uuid(drv, probe)
         IN  /\ lsblk' = probe
             /\ dres' = [op |-> "uuid", ok |-> r.ok, exc |-> r.exc, value |-> r.value]
    /\ UNCHANGED <<mtab, drv>>
    /\ UNCHANGED mainVars

\* d.equate_node_mountpoint(part)
Equate ==
    /\ dres.op # "none"
    /\ \E part \in Nodes \cup MountPoints \cup FsTypes :
         dres' = [op |-> "equate", part |-> part,
                  first |-> equate_node_mountpoint(mtab, part)]
    /\ lsblk' = ""
    /\ UNCHANGED <<mtab, drv>>
    /\ UNCHANGED mainVars

\* d.equate_node_mountpoint(mount_point) with the mount point just returned
EquateBack ==
    /\ dres.op = "equate"
    /\ dres.first.ok
    /\ dres' = [op |-> "roundtrip", part |-> dres.part, first |-> dres.first,
                back |-> equate_node_mountpoint(mtab, dres.first.mount_point)]
    /\ lsblk' = ""
    /\ UNCHANGED <<mtab, drv>>
    /\ UNCHANGED mainVars

InitDrive ==
    /\ FirmwareInit
    /\ fw = <<>>
    /\ fwHeader = FALSE
    /\ pc = "drive"
    /\ espDir = TRUE
    /\ espFiles = {}
    /\ espStart = <<espDir, espFiles>>
    /\ noRun = FALSE
    /\ haveCmdline = TRUE
    /\ haveConfig = TRUE
    /\ mtab \in MountTables
    /\ mtabStart = mtab
    /\ drv = NoDrive
    /\ dres = NoResult
    /\ lsblk = ""
    /\ HostIdle

NextDrive ==
    \/ Construct
    \/ AssignNode
    \/ AssignMountPoint
    \/ ReadUuid
    \/ Equate
    \/ EquateBack

SpecDrive == InitDrive /\ [][NextDrive]_vars

----------------------------------------------------------------------------
(* One Drive object while the mount table changes under it: by its own     *)
(* mount_drive and unmount_drive, and by the rest of the host.             *)

\* mount_point, node, type
MountArgs ==
    { <<None, None, None>>,
      <<"/mnt", None, None>>,
      <<"/boot/efi", "/dev/sda1", "vfat">> }

UnmountArgs == {None, "/mnt", "/dev/sda1"}

\* d = Drive(...), once
ConstructOnce ==
    /\ dres.op = "none"
    /\ Construct

\* d.is_mounted
ReadIsMounted ==
    /\ dres.op # "none"
    /\ dres' = [op |-> "is_mounted", value |-> is_mounted(mtab, drv)]
    /\ lsblk' = ""
    /\ UNCHANGED <<mtab, drv>>
    /\ UNCHANGED mainVars

\* d.mount_drive(mount_point=..., node=..., type=...)
MountDrive ==
    /\ dres.op # "none"
    /\ \E args \in MountArgs, toolOk \in BOOLEAN :
         LET r == mount_drive(mtab, drv, args[1], args[2], args[3], toolOk)
         IN  /\ Len(r.table) <= MaxMounts
             /\ mtab' = r.table
             /\ drv' = r.drv
             /\ dres' = [op |-> "mount", ok |-> r.ok, exc |-> r.exc, cmd |-> r.cmd]
    /\ lsblk' = ""
    /\ UNCHANGED mainVars

\* d.unmount_drive(drive=...)
UnmountDrive ==
    /\ dres.op # "none"
    /\ \E drive \in UnmountArgs, toolOk \in BOOLEAN :
         LET r == unmount_drive(mtab, drv, drive, toolOk)
         IN  /\ mtab' = r.table
             /\ dres' = [op |-> "unmount", ok |-> r.ok, exc |-> r.exc, cmd |-> r.cmd]
    /\ lsblk' = ""
    /\ UNCHANGED drv
    /\ UNCHANGED mainVars

\* something else on the host mounts a filesystem
OsMount ==
    /\ dres.op # "none"
    /\ Len(mtab) < MaxMounts
    /\ \E rec \in MountRecords :
         /\ \A i \in 1..Len(mtab) : mtab[i].node # rec.node
         /\ mtab' = Append(mtab, rec)
    /\ dres' = [op |-> "stale"]
    /\ lsblk' = ""
    /\ UNCHANGED drv
    /\ UNCHANGED mainVars

\* something else on the host unmounts one
OsUnmount ==
    /\ dres.op # "none"
    /\ \E k \in 1..Len(mtab) : mtab' = UnmountAt(mtab, k)
    /\ dres' = [op |-> "stale"]
    /\ lsblk' = ""
    /\ UNCHANGED drv
    /\ UNCHANGED mainVars

InitMount ==
    /\ InitDrive
    /\ Len(mtab) <= 1

NextMount ==
    \/ ConstructOnce
    \/ AssignNode
    \/ ReadIsMounted
    \/ MountDrive
    \/ UnmountDrive
    \/ OsMount
    \/ OsUnmount

SpecMount == InitMount /\ [][NextMount]_vars

----------------------------------------------------------------------------
(* _parse_proc_partitions, get_drive_name and get_part_name on their own:  *)
(* a partition-table text and the device number of the path asked about.   *)

PartLines ==
    << "major minor  #blocks  name",
       "",
       "   8        0  117220824 sda",
       "8 1 104857600 sda1",
       " 259        0  500107608 nvme0n1",
       "8 2 1024",
       "8 x 1024 sdx",
       "   8       16  7812500 sdb removable" >>

\* the lines at the positions of S, in the order of the file
RECURSIVE PartPick(_, _)
PartPick(S, i) ==
    IF i > Len(PartLines) THEN <<>>
    ELSE (IF i \in S THEN <<PartLines[i]>> ELSE <<>>) \o PartPick(S, i + 1)

PartTexts ==
    {PartPick(S, 1) : S \in {T \in SUBSET (1..Len(PartLines)) : Cardinality(T) <= MaxPartLines}}

\* os.stat(path).st_dev as (major, minor)
PartDevs == {<<8, 0>>, <<8, 1>>, <<8, 2>>, <<8, 16>>, <<259, 0>>, <<259, 1>>}

\* get_drive_name(path) and get_part_name(path) for one path
LookupNames ==
    /\ pc = "partitions"
    /\ names.op = "none"
    /\ names' = [op |-> "lookup",
                 dInfo |-> _parse_proc_partitions(host.text),
                 drive |-> get_drive_name(host.text, host.root),
                 part |-> get_part_name(host.text, host.root)]
    /\ UNCHANGED host
    /\ UNCHANGED <<fw, fwHeader, espDir, espFiles, noRun, haveCmdline, haveConfig, pc, run,
                   exitCode, exc, nvram, entryIndex, orderNum, ops, out, copyFailed,
                   fwStart, espStart, fwFirst, prevOk, failedCalls, mtabStart>>
    /\ UNCHANGED driveVars

InitPartitions ==
    /\ FirmwareInit
    /\ fw = <<>>
    /\ fwHeader = FALSE
    /\ pc = "partitions"
    /\ espDir = TRUE
    /\ espFiles = {}
    /\ espStart = <<espDir, espFiles>>
    /\ noRun = FALSE
    /\ haveCmdline = TRUE
    /\ haveConfig = TRUE
    /\ DriveIdle
    /\ mtabStart = mtab
    /\ \E text \in PartTexts, dev \in PartDevs : host = [text |-> text, root |-> dev, esp |-> dev]
    /\ names = NoNames

NextPartitions == LookupNames

SpecPartitions == InitPartitions /\ [][NextPartitions]_vars

\* the lines with at least 4 fields whose first two are runs of digits
DataLines(lines) ==
    {i \in 1..Len(lines) :
        LET f == PyFields(lines[i])
        IN  /\ Len(f) >= 4
            /\ \A j \in 1..2 : \A c \in 1..Len(f[j]) : IsDigit(Char(f[j], c))}

\* the number a run of digits writes
NumberOf(field) == CHOOSE n \in 0..999 : Dec(n) = field

KeyOf(line) == <<NumberOf(PyFields(line)[1]), NumberOf(PyFields(line)[2])>>

\* C13: the mapping _parse_proc_partitions returns has an entry
\* (major, minor) -> 4th field exactly for the lines with at least 4 fields
\* whose first two fields are integers, and none for any other line; looking
\* up a pair without an entry fails with KeyError, looking up a pair with an
\* entry gives its name.
C13_PartitionParsing ==
    names.op = "lookup"
        => LET lines == host.text
               data == DataLines(lines)
               keys == {KeyOf(lines[i]) : i \in data}
               found(r, key) ==
                   IF key \in keys
                   THEN r.ok /\ \E i \in data : KeyOf(lines[i]) = key
                                                /\ r.value = PyFields(lines[i])[4]
                   ELSE ~r.ok /\ r.exc = "KeyError"
           IN  /\ DOMAIN names.dInfo = keys
               /\ \A i \in data : names.dInfo[KeyOf(lines[i])] = PyFields(lines[i])[4]
               /\ found(names.part, host.root)
               /\ found(names.drive, <<host.root[1], 0>>)

\* the table holding only "8 1 104857600 sda1": (8, 0) is not found, (8, 1)
\* is sda1
C13_Witness ==
    /\ names.op = "lookup"
    /\ host.text = <<"8 1 104857600 sda1">>
    /\ host.root = <<8, 1>>
    /\ ~names.drive.ok
    /\ names.drive.exc = "KeyError"
    /\ names.part.ok
    /\ names.part.value = "sda1"

\* a table with a header, a data line and a line that is cut short
C13_SkipWitness ==
    /\ names.op = "lookup"
    /\ host.text = <<"major minor  #blocks  name", "   8        0  117220824 sda", "8 2 1024">>
    /\ DOMAIN names.dInfo = {<<8, 0>>}

----------------------------------------------------------------------------
(* Properties of Drive. *)

MountedNodes(table) == {table[i].node : i \in 1..Len(table)}

\* C7: a Drive constructed from exactly one of node and mount_point either
\* knows, afterwards, the node and the mount point of the mount record the
\* given value matches, or, when no record matches, failed with DriveError.
C7_ConstructionResolves ==
    (/\ dres.op = "init"
     /\ (dres.node = None) # (dres.mount_point = None))
        => LET given == IF dres.node = None THEN dres.mount_point ELSE dres.node
               rec == equate_node_mountpoint(mtab, given)
           IN  IF rec.ok
               THEN /\ dres.ok
                    /\ drv.node = rec.node
                    /\ drv.mount_point = rec.mount_point
               ELSE /\ ~dres.ok
                    /\ dres.exc = DriveError

\* C9 as stated: for every snapshot and every node in it, resolving the node
\* and then the mount point that came back gives the same node again.
C9_RoundTrip ==
    (dres.op = "roundtrip" /\ dres.part \in MountedNodes(mtab))
        => /\ dres.back.ok
           /\ dres.back.node = dres.first.node

\* no record's mount point is the node, mount point or type of an earlier record
MountPointsUnshadowed(table) ==
    \A i \in 1..Len(table) : \A j \in 1..(i - 1) :
        ~RecordHas(table[j], table[i].mount_point)

\* C9, amended: the round trip gives the same node in every snapshot in which
\* no record's mount point equals the node, mount point or type of an earlier
\* record.
C9_RoundTripUnshadowed ==
    (/\ dres.op = "roundtrip"
     /\ dres.part \in MountedNodes(mtab)
     /\ MountPointsUnshadowed(mtab))
        => /\ dres.back.ok
           /\ dres.back.node = dres.first.node

\* a round trip through the second record of a snapshot
C9_Witness ==
    /\ dres.op = "roundtrip"
    /\ MountPointsUnshadowed(mtab)
    /\ Len(mtab) = MaxMounts
    /\ dres.part = mtab[Len(mtab)].node
    /\ dres.first.node = dres.part
    /\ dres.back.node = dres.part

\* the device-name field of a probe line, without the tree drawing before it
DeviceName(line) ==
    LET name == PyFields(line)[1]
    IN  IF Len(name) > 2 /\ SubSeq(name, 1, 2) = "|-" THEN SubSeq(name, 3, Len(name))
        ELSE name

\* the probe lines that give a UUID for the device called base
UuidLines(lines, base) ==
    {i \in 1..Len(lines) : /\ Len(PyFields(lines[i])) = 2
                           /\ DeviceName(lines[i]) = base}

\* C10: a read of uuid returns the UUID token of the probe line whose device
\* name is the basename of the node, and fails when there is no such line or
\* the probe cannot run.
C10_UuidOrFailure ==
    dres.op = "uuid"
        => LET lines == IF lsblk = ProbeFails THEN <<>> ELSE PySplit(lsblk, "\n")
               hits == IF drv.node = None THEN {}
                       ELSE UuidLines(lines, Basename(drv.node))
           IN  IF hits = {}
               THEN ~dres.ok
               ELSE /\ dres.ok
                    /\ \E i \in hits : dres.value = PyFields(lines[i])[2]

\* C11: every read of is_mounted, also after the mount table has changed since
\* the Drive was constructed, is true iff the node of the Drive is a key of
\* the mount table as it is at that read.
C11_IsMountedFresh ==
    dres.op = "is_mounted" => (dres.value <=> drv.node \in MountedNodes(mtab))

\* a read after a change of the table that turned the answer around
C11_Witness ==
    /\ dres.op = "is_mounted"
    /\ drv.node # None
    /\ mtab # mtabStart
    /\ dres.value # (drv.node \in MountedNodes(mtabStart))

----------------------------------------------------------------------------
(* Properties of main(). *)

MatchCount(lines) == Cardinality({i \in 1..Len(lines) : StrIn(osLabel, lines[i])})

Finished == pc \in {"done", "crashed"}

FailedOp(i) == Failed(ops[i].rc) = 1

\* C1: from a listing with at most one line containing the OS label, two
\* completed runs of main() without --simulate leave exactly one line that
\* contains the OS label.
C1_Idempotent ==
    (/\ run = 2
     /\ pc = "done"
     /\ prevOk
     /\ ~noRun
     /\ MatchCount(Listing(fwFirst, fwHeader)) <= 1)
        => MatchCount(PySplit(ListingText(fw, fwHeader), "\n")) = 1

\* C1, when no firmware call failed: the same statement for the runs in which
\* every efibootmgr call exited with 0.
C1_IdempotentWhenToolSucceeds ==
    failedCalls = 0 => C1_Idempotent

C1_TwoRunsWitness ==
    /\ run = 2
    /\ pc = "done"
    /\ prevOk
    /\ ~noRun
    /\ failedCalls = 0
    /\ MatchCount(Listing(fwFirst, fwHeader)) = 1
    /\ Len(fwFirst) = MaxEntries

\* C2: once the kernel or the initrd copy of a run has failed, the run has
\* ended without any del_boot_entry or add_boot_entry call, and the firmware
\* entries are those the run started with.
C2_CopyFailureBeforeNvram ==
    copyFailed \in {"kernel", "initrd"}
        => /\ pc = "crashed"
           /\ ops = <<>>
           /\ fw = fwStart

C2_Witness ==
    /\ pc = "crashed"
    /\ copyFailed \in {"kernel", "initrd"}
    /\ ~noRun
    /\ entryIndex >= 0

\* C3: a del_boot_entry or add_boot_entry call whose tool exits non-zero is the
\* last firmware call of its run (no add after a failed delete), and that run
\* does not end as a success with exit code 0.
C3_ToolFailureFatal ==
    \A i \in 1..Len(ops) :
        FailedOp(i) => /\ i = Len(ops)
                       /\ ~(pc = "done" /\ exitCode = 0)

\* C5: a finished run of main() with --simulate has left the firmware
\* entries, the mount table and the per-OS directory of the ESP as they were
\* when it started.
C5_SimulateMutatesNothing ==
    (noRun /\ Finished)
        => /\ fw = fwStart
           /\ mtab = mtabStart
           /\ <<espDir, espFiles>> = espStart

\* C6: the exit code of a finished run is 0 on success, 2 when the kernel copy
\* failed, 3 when the initrd copy failed or no kernel parameters were found.
C6_ExitCodes ==
    Finished
        => /\ (pc = "done" => exitCode = 0)
           /\ (copyFailed = "kernel" => exitCode = 2)
           /\ (copyFailed = "initrd" => exitCode = 3)
           /\ (~haveCmdline /\ ~haveConfig => exitCode = 3)

\* C8: once main() has searched the listing, entryIndex is -1 when no line
\* contains the OS label, and otherwise the 0-based position of the first
\* line that contains it, with orderNum the four hex digits of the boot entry
\* printed on that line.
C8_FindOsEntry ==
    pc \notin {"start", "drive_info", "resolve"}
        => LET hits == {i \in 1..Len(nvram) : StrIn(osLabel, nvram[i])}
           IN  /\ hits = {} => entryIndex = -1
               /\ hits # {} =>
                    /\ entryIndex + 1 \in hits
                    /\ \A i \in hits : entryIndex + 1 <= i
                    /\ \E k \in 1..Len(fwStart) :
                         /\ nvram[entryIndex + 1] = EntryLine(fwStart[k])
                         /\ orderNum = Hex4(fwStart[k].num)

C8_Witness ==
    /\ nvram = <<"Boot0000* Windows", "Boot0001* Ubuntu 22.04">>
    /\ entryIndex = 1
    /\ orderNum = "0001"

\* the run is past the copies of the kernel and the initrd and past its calls
\* to the firmware
PastFirmwareCalls ==
    \/ pc \in {"copy_cmdline", "done"}
    \/ pc = "crashed" /\ copyFailed = "cmdline"

\* the entries of a listing whose line contains the OS label
Matching(entries) == {k \in 1..Len(entries) : StrIn(osLabel, EntryLine(entries[k]))}

\* the smallest member of a set of positions
First(S) == CHOOSE k \in S : \A j \in S : k <= j

\* C14: in a run that got past the copies of the kernel and the initrd,
\* del_boot_entry was called iff the listing had a matching line, once, with
\* the boot number of the first matching line, every other entry being still
\* there; add_boot_entry was called once, after it; when nothing matched there
\* was no delete, though orderNum was computed from the last line.
C14_ReplaceProtocol ==
    PastFirmwareCalls
        => LET match == Matching(fwStart)
               first == First(match)
           IN  /\ (entryIndex >= 0) <=> (match # {})
               /\ Len(ops) = (IF match # {} THEN 2 ELSE 1)
               /\ ops[Len(ops)].op = "add"
               /\ match # {} =>
                    /\ ops[1].op = "del"
                    /\ ops[1].command = DelCommand(Hex4(fwStart[first].num))
                    /\ \A k \in 1..Len(fwStart) :
                         k # first => \E j \in 1..Len(fw) : fw[j] = fwStart[k]
               /\ match = {} => orderNum = PySlice(nvram[Len(nvram)], 4, 8)

\* two matching entries: the first was deleted, the second is still there
C14_Witness ==
    /\ PastFirmwareCalls
    /\ ~noRun
    /\ Cardinality(Matching(fwStart)) = 2
    /\ ops[1].op = "del"
    /\ ops[1].rc = 0
    /\ \A j \in 1..Len(fw) : fw[j] # fwStart[First(Matching(fwStart))]
    /\ \E j \in 1..Len(fw) : fw[j] = fwStart[2]

\* nothing matched, a boot number was computed all the same, no delete
C14_NoMatchWitness ==
    /\ PastFirmwareCalls
    /\ entryIndex = 0 - 1
    /\ orderNum = "0002"
    /\ Len(ops) = 1

\* C15: the boot number a run passes to del_boot_entry is the boot number of an
\* entry whose label is the OS label itself, never that of an entry whose
\* label only contains it.
C15_DeletesOwnEntryOnly ==
    \A i \in 1..Len(ops) :
        ops[i].op = "del"
            => \E k \in 1..Len(fwStart) :
                 /\ fwStart[k].label = osLabel
                 /\ ops[i].command = DelCommand(Hex4(fwStart[k].num))

\* the command that names the disk and the partition of the ESP of the host
EspAddCommand ==
    AddCommand("/dev/" \o DiskPool[host.espAt[1]].name, Dec(host.espAt[2]), osLabel,
               "/EFI/" \o osDirName \o linuxName,
               rootUuid, "EFI/" \o osDirName \o initrdName, kernelOpts)

\* C16: on every host, the device handed to add_boot_entry is
\* /dev/<the disk that holds the partition mounted on /boot/efi> and the
\* partition is the number of that partition on that disk.
C16_AddArgsIdentifyEsp ==
    \A i \in 1..Len(ops) : ops[i].op = "add" => ops[i].command = EspAddCommand

\* the hosts on which / and /boot/efi are on the same disk, that disk is the
\* minor-0 device of its major number, and the ESP has a one-digit number
PlainHost ==
    /\ host.rootAt[1] = host.espAt[1]
    /\ DiskPool[host.espAt[1]].minor = 0
    /\ host.espAt[2] < Len(Digits)

\* C16 on the plain hosts
C16_PlainHostArgs == PlainHost => C16_AddArgsIdentifyEsp

C16_PlainHostWitness ==
    /\ PlainHost
    /\ host.espAt = <<3, 1>>
    /\ \E i \in 1..Len(ops) : ops[i].op = "add" /\ ops[i].command = EspAddCommand

\* C12: a run without --simulate whose kernel and initrd copies succeeded and
\* whose copy of /proc/cmdline failed still ends as a success, exit code 0,
\* with the entry its add call created in the firmware.
C12_CmdlineCopyNonFatal ==
    (~noRun /\ copyFailed = "cmdline")
        => /\ pc = "done"
           /\ exitCode = 0
           /\ (ops[Len(ops)].rc = 0 => \E k \in 1..Len(fw) : fw[k].label = osLabel)

====
